---------------------------- MODULE Spec2Model ----------------------------
(***************************************************************************)
(* consul-kv-sync: flattening of nested YAML mappings, cross-file          *)
(* duplicate detection, transaction batching and the sequential sync       *)
(* executor with its per-batch accounting.                                 *)
(*                                                                         *)
(* Go strings are sequences of byte codes (<<97, 47, 98>> is "a/b"), so    *)
(* that concatenation, ordering and base64 are computed, not assumed.      *)
(* A Go pointer or error is a sequence of length 0 (nil) or 1.             *)
(***************************************************************************)
EXTENDS Integers, Sequences, FiniteSets, TLC

VARIABLES
    pairs,      \* syncToConsul: allPairs, the argument
    pc,         \* syncToConsul/syncKVPairs: position of the run
    chunks,     \* syncKVPairs: chunks
    i,          \* syncKVPairs: loop index of "for i, chunk := range chunks"
    summary,    \* syncKVPairs: *ExecutionSummary (<<>> is nil)
    inflight,   \* requests sent by httpClient.Do and not answered yet
    wire,       \* every transaction the store has received, in arrival order
    replies,    \* every answer the transport gave, in order
    stdout,     \* the status line printed by formatExecutionSummary
    runErr,     \* the error syncToConsul returns (<<>> is nil)
    cOps,       \* chunkOps: ops
    cSize,      \* chunkOps: chunkSize
    cOut,       \* chunkOps: the returned chunks
    cpc,        \* chunkOps: "call" before, "ret" after
    kvMaps,     \* detectDuplicates: kvMaps
    filenames,  \* detectDuplicates: filenames
    dups,       \* detectDuplicates: the returned []DuplicateInfo
    dErr,       \* detectDuplicates: the returned error (<<>> is nil)
    dpc,        \* detectDuplicates: "call" before, "ret" after
    fData,      \* flattenKVPairs: data
    fPrefix,    \* flattenKVPairs: prefix
    fOut,       \* flattenKVPairs: the returned []KVPair
    fpc,        \* flattenKVPairs: "call" before, "ret" after
    export,     \* run: the -export flag
    dryRun,     \* run: the -dry-run flag
    rpc,        \* run: position of the run
    out,        \* run: what export or dry-run wrote to stdout (<<>> is nothing)
    runNo,      \* which invocation of syncToConsul this is: 1 or 2
    firstRun    \* what the first invocation sent and got (<<>> during it)

syncVars == <<pairs, pc, chunks, i, summary, inflight, wire, replies, stdout, runErr>>
chunkVars == <<cOps, cSize, cOut, cpc>>
dupVars == <<kvMaps, filenames, dups, dErr, dpc>>
flatVars == <<fData, fPrefix, fOut, fpc>>
runVars == <<export, dryRun, rpc, out>>
rerunVars == <<runNo, firstRun>>
vars == <<syncVars, chunkVars, dupVars, flatVars, runVars, rerunVars>>

----------------------------------------------------------------------------
(* Bounds of the model.                                                    *)

\* longest allPairs handed to syncToConsul (150 is TestChunkOps' largest case)
MaxPairs == 150
\* longest ops slice handed to chunkOps on its own
MaxChunkLen == 6
\* largest chunkSize handed to chunkOps on its own
MaxChunkSize == 4
\* most files handed to detectDuplicates
MaxSources == 2
\* most keys, nested ones included, in the files of one call together
MaxNodes == 4
\* most file names handed to detectDuplicates
MaxNames == 2

----------------------------------------------------------------------------
(* Strings.                                                                *)

Nil == <<>>

Str_key == <<107, 101, 121>>
Str_value == <<118, 97, 108, 117, 101>>
Str_set == <<115, 101, 116>>

\* strconv-style decimal rendering, as fmt's %d / %v of an int
RECURSIVE Itoa(_)
Itoa(n) ==
    IF n < 0 THEN <<45>> \o Itoa(0 - n)
    ELSE IF n < 10 THEN <<48 + n>>
    ELSE Itoa(n \div 10) \o <<48 + (n % 10)>>

\* the i-th letter of base64.StdEncoding's alphabet
Base64Char(x) ==
    IF x < 26 THEN 65 + x
    ELSE IF x < 52 THEN 97 + (x - 26)
    ELSE IF x < 62 THEN 48 + (x - 52)
    ELSE IF x = 62 THEN 43 ELSE 47

RECURSIVE encodeValue(_)
encodeValue(value) ==
    IF Len(value) = 0 THEN <<>>
    ELSE IF Len(value) = 1 THEN
        <<Base64Char(value[1] \div 4), Base64Char((value[1] % 4) * 16), 61, 61>>
    ELSE IF Len(value) = 2 THEN
        <<Base64Char(value[1] \div 4),
          Base64Char((value[1] % 4) * 16 + value[2] \div 16),
          Base64Char((value[2] % 16) * 4), 61>>
    ELSE
        <<Base64Char(value[1] \div 4),
          Base64Char((value[1] % 4) * 16 + value[2] \div 16),
          Base64Char((value[2] % 16) * 4 + value[3] \div 64),
          Base64Char(value[3] % 64)>>
        \o encodeValue(SubSeq(value, 4, Len(value)))

----------------------------------------------------------------------------
(* Batch planner.                                                          *)

MaxOpsPerTransaction == 64

createTransactionOps(ps) ==
    [j \in 1..Len(ps) |->
        [Verb |-> Str_set, Key |-> ps[j].Key, Value |-> encodeValue(ps[j].Value)]]

\* the body of chunkOps' for loop, from index k (0-based) on
RECURSIVE chunkOpsFrom(_, _, _, _)
chunkOpsFrom(ops, chunkSize, k, acc) ==
    IF k < Len(ops) THEN
        LET end == IF k + chunkSize > Len(ops) THEN Len(ops) ELSE k + chunkSize
        IN  chunkOpsFrom(ops, chunkSize, k + chunkSize,
                         Append(acc, SubSeq(ops, k + 1, end)))
    ELSE acc

\* a planner that packs one operation too many into each transaction
chunkOps_Oversize(ops, chunkSize) == chunkOpsFrom(ops, chunkSize + 1, 0, <<>>)

\* a planner whose loop runs "while i+chunkSize <= len(ops)": the short tail is lost
RECURSIVE chunkOps_FullOnlyFrom(_, _, _, _)
chunkOps_FullOnlyFrom(ops, chunkSize, k, acc) ==
    IF k + chunkSize <= Len(ops) THEN
        chunkOps_FullOnlyFrom(ops, chunkSize, k + chunkSize,
                              Append(acc, SubSeq(ops, k + 1, k + chunkSize)))
    ELSE acc

chunkOps_DropsTail(ops, chunkSize) == chunkOps_FullOnlyFrom(ops, chunkSize, 0, <<>>)

chunkOps(ops, chunkSize) == chunkOpsFrom(ops, chunkSize, 0, <<>>)

----------------------------------------------------------------------------
(* Transport and store.                                                    *)

\* what one PUT /v1/txn can come back with: no response at all, a body that
\* cannot be read or parsed, or a status code with a parsed TxnResponse
OpErrorLists(chunk) ==
    {<<>>, <<[OpIndex |-> Len(chunk) - 1, What |-> "invalid operation"]>>}

Replies(chunk) ==
    {[kind |-> k, code |-> 0, errors |-> <<>>] : k \in {"doError", "readError", "badJSON"}}
    \cup {[kind |-> "status", code |-> 200, errors |-> <<>>],
          [kind |-> "status", code |-> 500, errors |-> <<>>]}
    \cup {[kind |-> "status", code |-> 409, errors |-> e] : e \in OpErrorLists(chunk)}

\* executeTransaction's (txnResp, err) for a given answer of the transport
executeTransaction(reply) ==
    IF reply.kind = "doError" THEN
        [txnResp |-> Nil, err |-> <<[what |-> "failed to execute request", n |-> 0]>>]
    ELSE IF reply.kind = "readError" THEN
        [txnResp |-> Nil, err |-> <<[what |-> "failed to read response body", n |-> 0]>>]
    ELSE IF reply.kind = "badJSON" THEN
        [txnResp |-> Nil, err |-> <<[what |-> "failed to unmarshal response", n |-> 0]>>]
    ELSE IF reply.code = 200 THEN
        [txnResp |-> <<[Errors |-> reply.errors]>>, err |-> Nil]
    ELSE IF reply.code = 409 THEN
        [txnResp |-> <<[Errors |-> reply.errors]>>,
         err |-> <<[what |-> "transaction rolled back", n |-> Len(reply.errors)]>>]
    ELSE
        [txnResp |-> Nil, err |-> <<[what |-> "unexpected status code", n |-> reply.code]>>]

----------------------------------------------------------------------------
(* Sync executor.                                                          *)

\* the BatchResult syncKVPairs builds for chunk number k (0-based)
batchResult(k, chunk, res) ==
    [BatchIndex |-> k,
     ProcessedOps |-> Len(chunk),
     Success |-> res.err = Nil,
     Error |-> res.err,
     OpErrors |-> IF res.err # Nil /\ res.txnResp # Nil
                  THEN res.txnResp[1].Errors ELSE <<>>]

\* an accounting that counts a batch as failed only when the store answered
recordResult_MissesTransport(s, k, chunk, res) ==
    [s EXCEPT !.FailedBatches = IF res.err # Nil /\ res.txnResp # Nil THEN @ + 1 ELSE @,
              !.SuccessBatches = IF res.err = Nil THEN @ + 1 ELSE @,
              !.Results = Append(@, batchResult(k, chunk, res))]

\* the summary after the outcome of chunk number k has been recorded
recordResult(s, k, chunk, res) ==
    [s EXCEPT !.FailedBatches = IF res.err # Nil THEN @ + 1 ELSE @,
              !.SuccessBatches = IF res.err = Nil THEN @ + 1 ELSE @,
              !.Results = Append(@, batchResult(k, chunk, res))]

writeStatusMessage(s) ==
    IF s.SuccessBatches = s.TotalBatches THEN "[SUCCESS]"
    ELSE IF s.SuccessBatches > 0 THEN "[WARNING]"
    ELSE "[ERROR]"

\* a caller that looks at the returned error only, never at FailedBatches
syncToConsulResult_IgnoresFailed(s, err) ==
    IF err # Nil /\ s = Nil THEN <<[what |-> "failed to sync KV pairs", n |-> 0]>>
    ELSE Nil

\* what syncToConsul returns, given what syncKVPairs returned
syncToConsulResult(s, err) ==
    IF err # Nil /\ s = Nil THEN <<[what |-> "failed to sync KV pairs", n |-> 0]>>
    ELSE IF s # Nil /\ s[1].FailedBatches > 0
        THEN <<[what |-> "batches failed", n |-> s[1].FailedBatches]>>
    ELSE Nil

\* a syncKVPairs whose summary outlives the call: a later call goes on
\* counting where the earlier one stopped
SyncStart_SummaryKept ==
    /\ pc = "start"
    /\ LET cs == chunkOps(createTransactionOps(pairs), MaxOpsPerTransaction)
       IN  /\ chunks' = cs
           /\ summary' = IF firstRun # <<>> THEN firstRun[1].summary
                          ELSE <<[TotalKeys |-> Len(pairs), TotalBatches |-> Len(cs),
                                  SuccessBatches |-> 0, FailedBatches |-> 0,
                                  Results |-> <<>>]>>
    /\ i' = 0
    /\ pc' = "loop"
    /\ UNCHANGED <<pairs, inflight, wire, replies, stdout, runErr, chunkVars, dupVars, flatVars, runVars, rerunVars>>

\* syncToConsul calls syncKVPairs, which plans the batches
SyncStart ==
    /\ pc = "start"
    /\ LET cs == chunkOps(createTransactionOps(pairs), MaxOpsPerTransaction)
       IN  /\ chunks' = cs
           /\ summary' = <<[TotalKeys |-> Len(pairs), TotalBatches |-> Len(cs),
                            SuccessBatches |-> 0, FailedBatches |-> 0,
                            Results |-> <<>>]>>
    /\ i' = 0
    /\ pc' = "loop"
    /\ UNCHANGED <<pairs, inflight, wire, replies, stdout, runErr, chunkVars, dupVars, flatVars, runVars, rerunVars>>

\* executeTransaction: httpClient.Do sends the chunk and blocks
Submit ==
    /\ pc = "loop"
    /\ i < Len(chunks)
    /\ inflight' = inflight \cup {[BatchIndex |-> i, ops |-> chunks[i + 1]]}
    /\ wire' = Append(wire, [BatchIndex |-> i, ops |-> chunks[i + 1]])
    /\ pc' = "await"
    /\ UNCHANGED <<pairs, chunks, i, summary, replies, stdout, runErr, chunkVars, dupVars, flatVars, runVars, rerunVars>>

\* an executor that leaves the loop at the first failed batch
RecordOutcome_BreakOnFailure ==
    /\ pc = "await"
    /\ \E reply \in Replies(chunks[i + 1]) :
        /\ replies' = Append(replies, reply)
        /\ summary' = <<recordResult(summary[1], i, chunks[i + 1],
                                     executeTransaction(reply))>>
        /\ i' = IF executeTransaction(reply).err # Nil THEN Len(chunks) ELSE i + 1
    /\ inflight' = inflight \ {[BatchIndex |-> i, ops |-> chunks[i + 1]]}
    /\ pc' = "loop"
    /\ UNCHANGED <<pairs, chunks, wire, stdout, runErr, chunkVars, dupVars, flatVars, runVars, rerunVars>>

\* an executor that submits a failed batch again
RecordOutcome_RetryOnFailure ==
    /\ pc = "await"
    /\ Len(wire) < 2 * Len(chunks)
    /\ \E reply \in Replies(chunks[i + 1]) :
        /\ replies' = Append(replies, reply)
        /\ summary' = <<recordResult(summary[1], i, chunks[i + 1],
                                     executeTransaction(reply))>>
        /\ i' = IF executeTransaction(reply).err # Nil THEN i ELSE i + 1
    /\ inflight' = inflight \ {[BatchIndex |-> i, ops |-> chunks[i + 1]]}
    /\ pc' = "loop"
    /\ UNCHANGED <<pairs, chunks, wire, stdout, runErr, chunkVars, dupVars, flatVars, runVars, rerunVars>>

\* the transport answers; syncKVPairs records the outcome and moves on
RecordOutcome ==
    /\ pc = "await"
    /\ \E reply \in Replies(chunks[i + 1]) :
        /\ replies' = Append(replies, reply)
        /\ summary' = <<recordResult(summary[1], i, chunks[i + 1],
                                     executeTransaction(reply))>>
    /\ inflight' = inflight \ {[BatchIndex |-> i, ops |-> chunks[i + 1]]}
    /\ i' = i + 1
    /\ pc' = "loop"
    /\ UNCHANGED <<pairs, chunks, wire, stdout, runErr, chunkVars, dupVars, flatVars, runVars, rerunVars>>

\* syncKVPairs returns (summary, nil); syncToConsul prints and returns
SyncReturn ==
    /\ pc = "loop"
    /\ i >= Len(chunks)
    /\ stdout' = IF summary # Nil THEN writeStatusMessage(summary[1]) ELSE stdout
    /\ runErr' = syncToConsulResult(summary, Nil)
    /\ pc' = "done"
    /\ UNCHANGED <<pairs, chunks, i, summary, inflight, wire, replies, chunkVars, dupVars, flatVars, runVars, rerunVars>>

\* the input of TestChunkOps: n pairs "key0".."key<n-1>" with value "value"
TestPairs(n) == [j \in 1..n |-> [Key |-> Str_key \o Itoa(j - 1), Value |-> Str_value]]

\* the state of a run before syncToConsul is entered
SyncIdle ==
    /\ chunks = <<>>
    /\ i = 0
    /\ summary = Nil
    /\ inflight = {}
    /\ wire = <<>>
    /\ replies = <<>>
    /\ stdout = ""
    /\ runErr = Nil

ChunkIdle ==
    /\ cOps = <<>>
    /\ cSize = 1
    /\ cOut = <<>>
    /\ cpc = "off"

DupIdle ==
    /\ kvMaps = <<>>
    /\ filenames = <<>>
    /\ dups = <<>>
    /\ dErr = Nil
    /\ dpc = "off"

FlatIdle ==
    /\ fData = <<>>
    /\ fPrefix = <<>>
    /\ fOut = <<>>
    /\ fpc = "off"

RunIdle ==
    /\ export = FALSE
    /\ dryRun = FALSE
    /\ rpc = "off"
    /\ out = <<>>

RerunIdle ==
    /\ runNo = 1
    /\ firstRun = <<>>

Init ==
    /\ pairs \in {TestPairs(n) : n \in 0..MaxPairs}
    /\ pc = "start"
    /\ SyncIdle
    /\ ChunkIdle
    /\ DupIdle
    /\ FlatIdle
    /\ RunIdle
    /\ RerunIdle

Next ==
    \/ SyncStart
    \/ Submit
    \/ RecordOutcome
    \/ SyncReturn

Spec == Init /\ [][Next]_vars

----------------------------------------------------------------------------
(* Properties of the sync executor.                                        *)

\* the answer left the outcome of the batch unknown: no response, an
\* unreadable or unparsable body, or a status other than 200 and 409
IsTransportFailure(reply) == reply.kind # "status" \/ reply.code \notin {200, 409}

\* the store answered 409: it rolled the transaction back
IsRollback(reply) == reply.kind = "status" /\ reply.code = 409

IsCommit(reply) == reply.kind = "status" /\ reply.code = 200

Results == IF summary = Nil THEN <<>> ELSE summary[1].Results

\* C1: once the submission of batch j has hit a transport-level failure, no
\* later batch is submitted, the batch is not recorded as a failed batch of the
\* summary, and the run ends with the transport error and no summary error.
C1_TransportFailureIsFatal ==
    \A j \in 1..Len(replies) :
        IsTransportFailure(replies[j]) =>
            /\ Len(wire) = j
            /\ \A r \in 1..Len(Results) : Results[r].BatchIndex # j - 1
            /\ pc = "done" =>
                  runErr = <<[what |-> "failed to sync KV pairs", n |-> 0]>>

\* C2: a batch the store rolled back is recorded as failed with the store's
\* per-operation errors, and when the run is over every planned batch has
\* been submitted, whatever the pattern of rollbacks.
C2_RollbackRecordedRunContinues ==
    /\ \A j \in 1..Len(Results) :
          IsRollback(replies[j]) =>
              /\ Results[j].Success = FALSE
              /\ Results[j].Error # Nil
              /\ Results[j].OpErrors = replies[j].errors
    /\ pc = "done" =>
          /\ Len(wire) = Len(chunks)
          /\ \A j \in 1..Len(chunks) : wire[j].ops = chunks[j]

\* a three-batch run is over, its first batch was rolled back with a
\* per-operation error, and the two later batches were still submitted
C2_Witness ==
    /\ pc = "done"
    /\ Len(chunks) = 3
    /\ IsRollback(replies[1])
    /\ replies[1].errors # <<>>
    /\ Len(wire) = 3

\* C3: at every moment SuccessBatches + FailedBatches is the number of
\* outcomes, which is TotalBatches once the run is over; the outcomes are one
\* per answered submission in submission order, the j-th with index j-1, the
\* size of the j-th submitted batch, and Success exactly when Error is nil.
C3_SummaryAccounting ==
    summary # Nil =>
        LET s == summary[1]
            ok == {j \in 1..Len(s.Results) : s.Results[j].Success}
        IN  /\ s.SuccessBatches + s.FailedBatches = Len(s.Results)
            /\ s.SuccessBatches = Cardinality(ok)
            /\ Len(s.Results) = Len(replies)
            /\ Len(s.Results) <= Len(wire)
            /\ s.TotalBatches = Len(chunks)
            /\ pc = "done" => Len(s.Results) = s.TotalBatches
            /\ \A j \in 1..Len(s.Results) :
                  /\ s.Results[j].BatchIndex = j - 1
                  /\ s.Results[j].ProcessedOps = Len(wire[j].ops)
                  /\ s.Results[j].Success <=> s.Results[j].Error = Nil
                  /\ s.Results[j].Success <=> IsCommit(replies[j])

\* a finished three-batch run with a commit, a transport failure and a rollback
C3_Witness ==
    /\ pc = "done"
    /\ Len(Results) = 3
    /\ IsCommit(replies[1])
    /\ IsTransportFailure(replies[2])
    /\ IsRollback(replies[3])

\* C4: syncToConsul returns an error exactly when FailedBatches > 0, it does
\* so only once every batch has been submitted and answered, and the status
\* line says success exactly when it returns nil.
C4_RunFailsIffBatchFailed ==
    /\ pc # "done" => runErr = Nil
    /\ pc = "done" =>
          /\ runErr # Nil <=> summary[1].FailedBatches > 0
          /\ Len(wire) = summary[1].TotalBatches
          /\ Len(replies) = summary[1].TotalBatches
          /\ stdout = "[SUCCESS]" <=> runErr = Nil

\* batch 2 of 3 rolled back, batches 1 and 3 committed, run reported failed
C4_Witness ==
    /\ pc = "done"
    /\ summary[1].TotalBatches = 3
    /\ summary[1].SuccessBatches = 2
    /\ summary[1].FailedBatches = 1
    /\ IsCommit(replies[1]) /\ IsRollback(replies[2]) /\ IsCommit(replies[3])
    /\ runErr # Nil

\* C5: the store receives the planned batches one at a time, in plan order
\* and each at most once: the j-th transaction received is batch j-1, at most
\* one request is unanswered, and a batch is on the wire only when the
\* outcomes of all batches before it have been recorded.
C5_SequentialNoRetry ==
    /\ Cardinality(inflight) <= 1
    /\ Len(wire) <= Len(chunks)
    /\ \A j \in 1..Len(wire) : wire[j].BatchIndex = j - 1 /\ wire[j].ops = chunks[j]
    /\ inflight = {} => Len(wire) = Len(Results)
    /\ inflight # {} => Len(wire) = Len(Results) + 1 /\ inflight = {wire[Len(wire)]}

\* the third batch is on the wire after the second one failed
C5_Witness ==
    /\ Len(wire) = 3
    /\ inflight # {}
    /\ ~IsCommit(replies[2])

\* C6: every transaction the store receives holds between 1 and 64 operations.
C6_TransactionSize ==
    \A j \in 1..Len(wire) : Len(wire[j].ops) >= 1 /\ Len(wire[j].ops) <= 64

\* 150 pairs went out as transactions of 64, 64 and 22 operations
C6_Witness ==
    /\ Len(pairs) = 150
    /\ Len(wire) = 3
    /\ Len(wire[1].ops) = 64 /\ Len(wire[2].ops) = 64 /\ Len(wire[3].ops) = 22

----------------------------------------------------------------------------
(* chunkOps on its own, on every short slice and small chunk size.         *)

RECURSIVE SeqsUpTo(_, _)
SeqsUpTo(S, n) ==
    IF n = 0 THEN {<<>>}
    ELSE LET shorter == SeqsUpTo(S, n - 1)
         IN  shorter \cup {Append(q, x) : q \in {r \in shorter : Len(r) = n - 1}, x \in S}

TestOps == {createTransactionOps(TestPairs(2))[j] : j \in 1..2}

ChunkCall ==
    /\ cpc = "call"
    /\ cOut' = chunkOps(cOps, cSize)
    /\ cpc' = "ret"
    /\ UNCHANGED <<cOps, cSize, syncVars, dupVars, flatVars, runVars, rerunVars>>

InitChunk ==
    /\ cOps \in SeqsUpTo(TestOps, MaxChunkLen)
    /\ cSize \in 1..MaxChunkSize
    /\ cOut = <<>>
    /\ cpc = "call"
    /\ pairs = <<>>
    /\ pc = "off"
    /\ SyncIdle
    /\ DupIdle
    /\ FlatIdle
    /\ RunIdle
    /\ RerunIdle

NextChunk == ChunkCall

SpecChunk == InitChunk /\ [][NextChunk]_vars

\* ceil(n / c)
CeilDiv(n, c) == (n + c - 1) \div c

Min(a, b) == IF a < b THEN a ELSE b

RECURSIVE Concat(_)
Concat(seqs) == IF seqs = <<>> THEN <<>> ELSE Head(seqs) \o Concat(Tail(seqs))

\* C7: for N operations and capacity C >= 1 chunkOps returns ceil(N/C)
\* batches, none empty and all but the last of size C, batch j (0-based)
\* holding the entries [j*C, min((j+1)*C, N)), and their concatenation is the
\* input.
C7_ChunkOpsPartition ==
    cpc = "ret" =>
        LET N == Len(cOps)
            C == cSize
        IN  /\ Len(cOut) = CeilDiv(N, C)
            /\ N = 0 => cOut = <<>>
            /\ \A j \in 1..Len(cOut) :
                  /\ Len(cOut[j]) >= 1
                  /\ j < Len(cOut) => Len(cOut[j]) = C
                  /\ cOut[j] = SubSeq(cOps, (j - 1) * C + 1, Min(j * C, N))
            /\ Concat(cOut) = cOps

\* five operations with capacity two came back as batches of 2, 2 and 1
C7_Witness ==
    /\ cpc = "ret"
    /\ Len(cOps) = 5
    /\ cSize = 2
    /\ Len(cOut) = 3
    /\ Len(cOut[3]) = 1

----------------------------------------------------------------------------
(* Flattener.                                                              *)
(*                                                                         *)
(* A YAML value is [t |-> tag, v |-> payload]: "str" (bytes), "int",       *)
(* "bool", "nil", "map" (map[string]interface{}: a function from key       *)
(* strings to values) and "imap" (map[interface{}]interface{}: a function  *)
(* from [isStr, k] keys to values, k the key's text).  Go ranges over a    *)
(* map in an unspecified order, so flattenKVPairs is the set of the slices *)
(* a call can return, one per iteration order.                             *)

Str_nil == <<60, 110, 105, 108, 62>>
Str_true == <<116, 114, 117, 101>>
Str_false == <<102, 97, 108, 115, 101>>
Slash == <<47>>

\* fmt.Sprintf("%v", value) of a scalar
Sprintf_v(value) ==
    IF value.t = "str" THEN value.v
    ELSE IF value.t = "int" THEN Itoa(value.v)
    ELSE IF value.t = "bool" THEN (IF value.v THEN Str_true ELSE Str_false)
    ELSE Str_nil

buildKey(prefix, key) == IF prefix = <<>> THEN key ELSE prefix \o Slash \o key

\* the map with key k taken out
Without(data, k) == [x \in DOMAIN data \ {k} |-> data[x]]

\* processInterfaceMap's convertedMap: the string keys of m, the others dropped
convertedMap(m) ==
    [sk \in {x.k : x \in {y \in DOMAIN m : y.isStr}} |-> m[[isStr |-> TRUE, k |-> sk]]]

RECURSIVE flattenKVPairs(_, _), processValue(_, _), processInterfaceMap(_, _)
flattenKVPairs(data, prefix) ==
    IF DOMAIN data = {} THEN {<<>>}
    ELSE UNION {
            {first \o rest : first \in processValue(buildKey(prefix, key), data[key]),
                             rest \in flattenKVPairs(Without(data, key), prefix)}
            : key \in DOMAIN data}

\* a processValue that emits nothing for a null value
processValue_SkipsNil(key, value) ==
    IF value.t = "map" THEN flattenKVPairs(value.v, key)
    ELSE IF value.t = "imap" THEN processInterfaceMap(key, value.v)
    ELSE IF value.t = "nil" THEN {<<>>}
    ELSE {<<[Key |-> key, Value |-> Sprintf_v(value)]>>}

processValue(key, value) ==
    IF value.t = "map" THEN flattenKVPairs(value.v, key)
    ELSE IF value.t = "imap" THEN processInterfaceMap(key, value.v)
    ELSE {<<[Key |-> key, Value |-> Sprintf_v(value)]>>}

processInterfaceMap(key, m) == flattenKVPairs(convertedMap(m), key)

----------------------------------------------------------------------------
(* Duplicate detector.                                                     *)

\* Go's < on strings: bytewise lexicographic
RECURSIVE StrLess(_, _)
StrLess(a, b) ==
    IF b = <<>> THEN FALSE
    ELSE IF a = <<>> THEN TRUE
    ELSE IF a[1] # b[1] THEN a[1] < b[1]
    ELSE StrLess(Tail(a), Tail(b))

\* keyTracker after the pairs ps of the file called filename have been appended
RECURSIVE trackPairs(_, _, _)
trackPairs(keyTracker, ps, filename) ==
    IF ps = <<>> THEN keyTracker
    ELSE LET pair == Head(ps)
             src == [Filename |-> filename, Value |-> pair.Value]
             old == IF pair.Key \in DOMAIN keyTracker THEN keyTracker[pair.Key] ELSE <<>>
         IN  trackPairs([k \in DOMAIN keyTracker \cup {pair.Key} |->
                            IF k = pair.Key THEN Append(old, src) ELSE keyTracker[k]],
                        Tail(ps), filename)

\* a tracker that is started afresh for every file
RECURSIVE keyTrackers_PerFile(_, _, _)
keyTrackers_PerFile(maps, names, n) ==
    IF n = 0 THEN {<<>>}
    ELSE {trackPairs(<<>>, ps, names[n]) : ps \in flattenKVPairs(maps[n], <<>>)}

\* the keyTrackers the first n files can leave, one per iteration order
RECURSIVE keyTrackers(_, _, _)
keyTrackers(maps, names, n) ==
    IF n = 0 THEN {<<>>}
    ELSE {trackPairs(t, ps, names[n]) :
            t \in keyTrackers(maps, names, n - 1),
            ps \in flattenKVPairs(maps[n], <<>>)}

\* a comparator written with > instead of <
dupLess_Descending(x, y) == StrLess(y.Key, x.Key)

\* the comparator handed to sort.Slice
dupLess(x, y) == StrLess(x.Key, y.Key)

\* sort.Slice(duplicates, less) on a slice holding the elements of S
RECURSIVE sortSlice(_)
sortSlice(S) ==
    IF S = {} THEN <<>>
    ELSE LET first == CHOOSE x \in S : \A y \in S : ~dupLess(y, x)
         IN  <<first>> \o sortSlice(S \ {first})

\* a scan that reports a key only from its third occurrence on
findDuplicates_FromThree(keyTracker) ==
    sortSlice({[Key |-> key, Files |-> keyTracker[key]] :
                key \in {k \in DOMAIN keyTracker : Len(keyTracker[k]) > 2}})

\* a scan that reports a repeated key only when its first occurrence is in "f1"
findDuplicates_FirstFileOnly(keyTracker) ==
    sortSlice({[Key |-> key, Files |-> keyTracker[key]] :
                key \in {k \in DOMAIN keyTracker :
                            /\ Len(keyTracker[k]) > 1
                            /\ keyTracker[k][1].Filename = <<102, 49>>}})

\* the "Find duplicates" loop and the sort after it
findDuplicates(keyTracker) ==
    sortSlice({[Key |-> key, Files |-> keyTracker[key]] :
                key \in {k \in DOMAIN keyTracker : Len(keyTracker[k]) > 1}})

\* a guard that only protects filenames[i] from running out of range
arityMismatch_TooFewNames(maps, names) == Len(maps) > Len(names)

\* the guard at the head of detectDuplicates
arityMismatch(maps, names) == Len(maps) # Len(names)

\* the (duplicates, err) pairs a call of detectDuplicates can return
detectDuplicates(maps, names) ==
    IF arityMismatch(maps, names) THEN
        {[duplicates |-> Nil,
          err |-> <<[what |-> "mismatch between number of KV maps and filenames", n |-> 0]>>]}
    ELSE {[duplicates |-> findDuplicates(t), err |-> Nil] :
            t \in keyTrackers(maps, names, Len(maps))}

DetectCall ==
    /\ dpc = "call"
    /\ \E r \in detectDuplicates(kvMaps, filenames) :
        /\ dups' = r.duplicates
        /\ dErr' = r.err
    /\ dpc' = "ret"
    /\ UNCHANGED <<kvMaps, filenames, syncVars, chunkVars, flatVars, runVars, rerunVars>>

----------------------------------------------------------------------------
(* detectDuplicates on its own, on every small list of small YAML files.   *)

\* the keys of nested mappings: "a", "b"
YamlKeys == {<<97>>, <<98>>}

\* the keys of a file's top level: "a", "b" and "a/b", which a: {b: ...} also flattens to
TopKeys == YamlKeys \cup {<<97, 47, 98>>}

YamlScalars == {[t |-> "int", v |-> 1], [t |-> "int", v |-> 2]}

\* the number of keys of a mapping, nested ones included
RECURSIVE Nodes(_)
Nodes(m) ==
    IF DOMAIN m = {} THEN 0
    ELSE LET k == CHOOSE x \in DOMAIN m : TRUE
         IN  1 + (IF m[k].t = "map" THEN Nodes(m[k].v) ELSE 0) + Nodes(Without(m, k))

\* the mappings over the keys K (YamlKeys below the top level) with at most n
\* keys in all, no nested one empty
RECURSIVE YamlMaps(_, _), YamlValues(_)
YamlMaps(K, n) ==
    IF n = 0 THEN {<<>>}
    ELSE LET smaller == YamlMaps(K, n - 1)
         IN  smaller \cup UNION {
                {[x \in DOMAIN m \cup {k} |-> IF x = k THEN v ELSE m[x]] :
                    k \in K \ DOMAIN m, v \in YamlValues(n - 1 - Nodes(m))}
                : m \in smaller}

YamlValues(n) ==
    YamlScalars \cup {[t |-> "map", v |-> m] : m \in YamlMaps(YamlKeys, n) \ {<<>>}}

RECURSIVE TotalNodes(_)
TotalNodes(maps) == IF maps = <<>> THEN 0 ELSE Nodes(Head(maps)) + TotalNodes(Tail(maps))

\* the caller puts one more parsed file into kvMaps
AddSource ==
    /\ dpc = "call"
    /\ Len(kvMaps) < MaxSources
    /\ \E m \in YamlMaps(TopKeys, MaxNodes - TotalNodes(kvMaps)) : kvMaps' = Append(kvMaps, m)
    /\ UNCHANGED <<filenames, dups, dErr, dpc, syncVars, chunkVars, flatVars, runVars, rerunVars>>

\* the caller puts one more file name into filenames: "f1", "f2", ...
AddName ==
    /\ dpc = "call"
    /\ Len(filenames) < MaxNames
    /\ filenames' = Append(filenames, <<102>> \o Itoa(Len(filenames) + 1))
    /\ UNCHANGED <<kvMaps, dups, dErr, dpc, syncVars, chunkVars, flatVars, runVars, rerunVars>>

InitDup ==
    /\ kvMaps = <<>>
    /\ filenames = <<>>
    /\ dups = <<>>
    /\ dErr = Nil
    /\ dpc = "call"
    /\ pairs = <<>>
    /\ pc = "off"
    /\ SyncIdle
    /\ ChunkIdle
    /\ FlatIdle
    /\ RunIdle
    /\ RerunIdle

NextDup ==
    \/ AddSource
    \/ AddName
    \/ DetectCall

SpecDup == InitDup /\ [][NextDup]_vars

\* for each file one of the slices flattening it can give; all of a file's
\* slices hold the same pairs
Flattened == [n \in 1..Len(kvMaps) |-> CHOOSE ps \in flattenKVPairs(kvMaps[n], <<>>) : TRUE]

\* how often pair pr occurs in the slice ps
OccPair(ps, pr) == Cardinality({j \in 1..Len(ps) : ps[j] = pr})

\* how often path p occurs in the slice ps
Occ(ps, p) == Cardinality({j \in 1..Len(ps) : ps[j].Key = p})

\* how often path p occurs in the first n slices of flat
RECURSIVE OccUpTo(_, _, _)
OccUpTo(flat, n, p) == IF n = 0 THEN 0 ELSE OccUpTo(flat, n - 1, p) + Occ(flat[n], p)

\* C8: detectDuplicates returns the arity error, and no records, exactly when
\* the number of mappings differs from the number of file names.
C8_ArityMismatch ==
    dpc = "ret" =>
        /\ dErr # Nil <=> Len(kvMaps) # Len(filenames)
        /\ dErr # Nil => dups = <<>>
        /\ dErr # Nil =>
              dErr[1].what = "mismatch between number of KV maps and filenames"

\* one mapping and two file names (the test's mismatch case) gave the error
C8_Witness ==
    /\ dpc = "ret"
    /\ Len(kvMaps) = 1
    /\ Len(filenames) = 2
    /\ dErr # Nil

\* C9: a path has a record exactly when it occurs at least twice across the
\* flattened files; a record lists all the occurrences of its path, at least
\* two, file after file in the order of kvMaps, each with its file's name
\* and the values that file gives the path.
C9_DuplicatesExactlyRepeatedPaths ==
    (dpc = "ret" /\ dErr = Nil) =>
        LET n == Len(kvMaps)
            flat == Flattened
            allPairs == UNION {{flat[f][j] : j \in 1..Len(flat[f])} : f \in 1..n}
        IN  /\ \A pr \in allPairs :
                  (\E r \in 1..Len(dups) : dups[r].Key = pr.Key)
                      <=> OccUpTo(flat, n, pr.Key) >= 2
            /\ \A r \in 1..Len(dups) :
                  LET p == dups[r].Key
                      files == dups[r].Files
                  IN  /\ \E pr \in allPairs : pr.Key = p
                      /\ Len(files) >= 2
                      /\ Len(files) = OccUpTo(flat, n, p)
                      /\ \A f \in 1..n :
                            LET block == (OccUpTo(flat, f - 1, p) + 1)..OccUpTo(flat, f, p)
                            IN  /\ \A j \in block : files[j].Filename = filenames[f]
                                /\ \A pr \in allPairs :
                                      pr.Key = p =>
                                        Cardinality({j \in block : files[j].Value = pr.Value})
                                            = OccPair(flat[f], pr)

\* {a: 1} and {a: 2} under f1, f2: one record, a: [(f1, "1"), (f2, "2")]
C9_Witness ==
    /\ dpc = "ret"
    /\ kvMaps = <<[k \in {<<97>>} |-> [t |-> "int", v |-> 1]],
                  [k \in {<<97>>} |-> [t |-> "int", v |-> 2]]>>
    /\ filenames = <<<<102, 49>>, <<102, 50>>>>
    /\ dups = <<[Key |-> <<97>>,
                 Files |-> <<[Filename |-> <<102, 49>>, Value |-> <<49>>],
                             [Filename |-> <<102, 50>>, Value |-> <<50>>]>>]>>

\* a is before b in dictionary order of bytes: a proper prefix of b, or
\* smaller at the first position where they differ
LexBefore(a, b) ==
    \E q \in 1..(Len(b)) :
        /\ \A x \in 1..(q - 1) : x <= Len(a) /\ a[x] = b[x]
        /\ (q = Len(a) + 1 \/ (q <= Len(a) /\ a[q] < b[q]))

\* C10: the returned records are in strictly ascending lexicographic order of
\* Key, whatever order the maps were iterated in.
C10_SortedByPath ==
    (dpc = "ret" /\ dErr = Nil) =>
        \A r \in 1..Len(dups), q \in 1..Len(dups) :
            r < q => LexBefore(dups[r].Key, dups[q].Key)

\* two duplicated paths came back, "a" before "a/b"
C10_Witness ==
    /\ dpc = "ret"
    /\ Len(dups) = 2
    /\ dups[1].Key = <<97>>
    /\ dups[2].Key = <<97, 47, 98>>

\* the sequence s read in the order pi
Permuted(s, pi) == [j \in 1..Len(s) |-> s[pi[j]]]

\* the paths that have a record in ds
DupKeys(ds) == {ds[r].Key : r \in 1..Len(ds)}

\* how often the occurrence src is listed in files
OccSrc(files, src) == Cardinality({j \in 1..Len(files) : files[j] = src})

\* the records ds and es list the same occurrences for the same paths
SameRecords(ds, es) ==
    /\ DupKeys(ds) = DupKeys(es)
    /\ \A r \in 1..Len(ds), q \in 1..Len(es) :
          ds[r].Key = es[q].Key =>
              /\ Len(ds[r].Files) = Len(es[q].Files)
              /\ \A j \in 1..Len(ds[r].Files) :
                    OccSrc(ds[r].Files, ds[r].Files[j]) = OccSrc(es[q].Files, ds[r].Files[j])

\* C11: whatever call returned dups, every call on the same (file name,
\* mapping) pairs taken in another order reports the same set of paths, and
\* for each path the same occurrences up to their order.
C11_SymmetricInSourceOrder ==
    (dpc = "ret" /\ dErr = Nil) =>
        \A pi \in Permutations(1..Len(kvMaps)) :
            \A r \in detectDuplicates(Permuted(kvMaps, pi), Permuted(filenames, pi)) :
                /\ r.err = Nil
                /\ SameRecords(dups, r.duplicates)

\* two files that both give "a", and one record came back for it
C11_Witness ==
    /\ dpc = "ret"
    /\ dErr = Nil
    /\ Len(kvMaps) = 2
    /\ kvMaps[1] # kvMaps[2]
    /\ DupKeys(dups) = {<<97>>}

----------------------------------------------------------------------------
(* flattenKVPairs on its own, on every small mapping.                      *)

\* most keys, nested ones included, in the mapping handed to flattenKVPairs
MaxFlatNodes == 3

\* the keys of a mapping: "", "a", "b" and "a/b"
FlatKeys == {<<>>, <<97>>, <<98>>, <<97, 47, 98>>}

\* the scalars: 1, null and "x"
FlatScalars == {[t |-> "int", v |-> 1], [t |-> "nil", v |-> 0], [t |-> "str", v |-> <<120>>]}

\* the keys of a map[interface{}]interface{}: the string "a" and the integer 1
IKeys == {[isStr |-> TRUE, k |-> <<97>>], [isStr |-> FALSE, k |-> <<49>>]}

\* the map[interface{}]interface{} values with at most n keys, all scalars
IMaps(n) ==
    UNION {[D -> FlatScalars] : D \in {E \in SUBSET IKeys : Cardinality(E) <= n}}

\* the number of keys of a mapping, those of nested mappings of both kinds included
RECURSIVE FlatNodes(_)
FlatNodes(m) ==
    IF DOMAIN m = {} THEN 0
    ELSE LET k == CHOOSE x \in DOMAIN m : TRUE
         IN  1 + (IF m[k].t = "map" THEN FlatNodes(m[k].v)
                  ELSE IF m[k].t = "imap" THEN Cardinality(DOMAIN m[k].v)
                  ELSE 0)
               + FlatNodes(Without(m, k))

\* the mappings over FlatKeys with at most n keys in all: scalars, nested
\* map[string]interface{} (empty ones too) and map[interface{}]interface{}
RECURSIVE FlatMaps(_), FlatValues(_)
FlatMaps(n) ==
    IF n = 0 THEN {<<>>}
    ELSE LET smaller == FlatMaps(n - 1)
         IN  smaller \cup UNION {
                {[x \in DOMAIN m \cup {k} |-> IF x = k THEN v ELSE m[x]] :
                    k \in FlatKeys \ DOMAIN m, v \in FlatValues(n - 1 - FlatNodes(m))}
                : m \in smaller}

FlatValues(n) ==
    FlatScalars
        \cup {[t |-> "map", v |-> m] : m \in FlatMaps(n)}
        \cup {[t |-> "imap", v |-> m] : m \in IMaps(n)}

\* the prefixes handed to flattenKVPairs: "" and "p"
FlatPrefixes == {<<>>, <<112>>}

FlattenCall ==
    /\ fpc = "call"
    /\ fOut' \in flattenKVPairs(fData, fPrefix)
    /\ fpc' = "ret"
    /\ UNCHANGED <<fData, fPrefix, syncVars, chunkVars, dupVars, runVars, rerunVars>>

InitFlatten ==
    /\ fData \in FlatMaps(MaxFlatNodes)
    /\ fPrefix \in FlatPrefixes
    /\ fOut = <<>>
    /\ fpc = "call"
    /\ pairs = <<>>
    /\ pc = "off"
    /\ SyncIdle
    /\ ChunkIdle
    /\ DupIdle
    /\ RunIdle
    /\ RerunIdle

NextFlatten == FlattenCall

SpecFlatten == InitFlatten /\ [][NextFlatten]_vars

\* every key of every nested mapping of m is a string
RECURSIVE StringKeyed(_)
StringKeyed(m) ==
    \A k \in DOMAIN m :
        /\ m[k].t = "map" => StringKeyed(m[k].v)
        /\ m[k].t = "imap" => \A x \in DOMAIN m[k].v : x.isStr

\* the scalar leaves of a string-keyed mapping, each as the sequence of keys
\* from the root down to it
RECURSIVE LeafKeySeqs(_)
LeafKeySeqs(m) ==
    UNION {IF m[k].t = "map" THEN {<<k>> \o ks : ks \in LeafKeySeqs(m[k].v)}
           ELSE IF m[k].t = "imap" THEN {<<k, x.k>> : x \in DOMAIN m[k].v}
           ELSE {<<k>>}
           : k \in DOMAIN m}

\* strings.Join(ss, "/")
RECURSIVE JoinSlash(_)
JoinSlash(ss) ==
    IF ss = <<>> THEN <<>>
    ELSE IF Len(ss) = 1 THEN ss[1]
    ELSE ss[1] \o Slash \o JoinSlash(Tail(ss))

\* the keys ks joined by "/", after the prefix when there is one
JoinedPath(prefix, ks) ==
    IF prefix = <<>> THEN JoinSlash(ks) ELSE JoinSlash(<<prefix>> \o ks)

\* ss without the empty strings it starts with
RECURSIVE DropLeadingEmpty(_)
DropLeadingEmpty(ss) ==
    IF ss = <<>> THEN <<>>
    ELSE IF Head(ss) = <<>> THEN DropLeadingEmpty(Tail(ss))
    ELSE ss

\* the prefix and the keys ks joined by "/", empty strings in front left out
JoinedPathNoLeadingEmpty(prefix, ks) == JoinSlash(DropLeadingEmpty(<<prefix>> \o ks))

\* the returned slice has one entry per leaf of fData, and as many entries
\* with a given path as there are leaves that path(prefix, keys) sends to it
EntriesMatchLeaves(path(_, _)) ==
    LET leaves == LeafKeySeqs(fData)
    IN  /\ Len(fOut) = Cardinality(leaves)
        /\ \A ks \in leaves :
              Cardinality({j \in 1..Len(fOut) : fOut[j].Key = path(fPrefix, ks)})
                  = Cardinality({ls \in leaves : path(fPrefix, ls) = path(fPrefix, ks)})

\* C13 as stated: flattening a string-keyed mapping with n scalar leaves
\* returns exactly n entries, one per leaf, whose path is the keys from the
\* root to the leaf joined by "/", after the prefix when it is not empty; an
\* empty nested mapping adds none.
C13_OneEntryPerLeafJoinedPath ==
    (fpc = "ret" /\ StringKeyed(fData)) => EntriesMatchLeaves(JoinedPath)

\* What holds of the code in place of C13: the same, with the path of a leaf
\* being the prefix and the keys from the root to the leaf joined by "/" once
\* the empty strings this sequence starts with are left out (buildKey does not
\* join onto an empty prefix).
C13_OneEntryPerLeaf ==
    (fpc = "ret" /\ StringKeyed(fData)) => EntriesMatchLeaves(JoinedPathNoLeadingEmpty)

\* C14: the paths in the slice flattenKVPairs returns for one mapping are
\* pairwise distinct: no two leaves are flattened to the same path.
C14_PathInjective ==
    fpc = "ret" =>
        \A j \in 1..Len(fOut), k \in 1..Len(fOut) :
            j # k => fOut[j].Key # fOut[k].Key

----------------------------------------------------------------------------
(* run: load, check for duplicates, collect, then export, dry run or sync. *)

\* most files of the environment
MaxRunFiles == 2
\* most keys, nested ones included, in the files of one run together
MaxRunNodes == 3

\* the keys of a file's top level: "a", "b" and "a/b"; of a nested mapping: "b"
RunTopKeys == {<<97>>, <<98>>, <<97, 47, 98>>}
RunKeys == {<<98>>}

\* the scalars: 1 and null
RunScalars == {[t |-> "int", v |-> 1], [t |-> "nil", v |-> 0]}

\* the parsed files over the keys K (RunKeys below the top level) with at most
\* n keys in all, no nested mapping empty
RECURSIVE RunMaps(_, _), RunValues(_)
RunMaps(K, n) ==
    IF n = 0 THEN {<<>>}
    ELSE LET smaller == RunMaps(K, n - 1)
         IN  smaller \cup UNION {
                {[x \in DOMAIN m \cup {k} |-> IF x = k THEN v ELSE m[x]] :
                    k \in K \ DOMAIN m, v \in RunValues(n - 1 - Nodes(m))}
                : m \in smaller}

RunValues(n) ==
    RunScalars \cup {[t |-> "map", v |-> m] : m \in RunMaps(RunKeys, n) \ {<<>>}}

\* the slices collectAllKVPairs can return, one per choice of iteration orders
RECURSIVE collectAllKVPairs(_)
collectAllKVPairs(maps) ==
    IF maps = <<>> THEN {<<>>}
    ELSE {ps \o rest : ps \in flattenKVPairs(Head(maps), <<>>),
                       rest \in collectAllKVPairs(Tail(maps))}

\* the consulKV records exportToJSON encodes to stdout
exportToJSON(ps) == [j \in 1..Len(ps) |-> [key |-> ps[j].Key, value |-> encodeValue(ps[j].Value)]]

\* a check that stops the run on the error only, never on the records
checkDuplicates_IgnoresRecords(r) ==
    IF r.err # Nil THEN <<[what |-> "failed to detect duplicates", n |-> 0]>>
    ELSE Nil

\* the error checkDuplicates returns, given what detectDuplicates returned
checkDuplicates(r) ==
    IF r.err # Nil THEN <<[what |-> "failed to detect duplicates", n |-> 0]>>
    ELSE IF Len(r.duplicates) > 0 THEN <<[what |-> "duplicate keys detected", n |-> 0]>>
    ELSE Nil

\* a run that looks at -dry-run before -export
runMode_DryRunFirst(exp, dry) ==
    IF dry THEN "dryrun" ELSE IF exp THEN "export" ELSE "sync"

\* the branch run takes after collectAllKVPairs
runMode(exp, dry) ==
    IF exp THEN "export" ELSE IF dry THEN "dryrun" ELSE "sync"

\* loadAllYAMLFiles reads one more file: its content and its base name "f1", "f2", ...
LoadFile ==
    /\ rpc = "load"
    /\ Len(kvMaps) < MaxRunFiles
    /\ \E m \in RunMaps(RunTopKeys, MaxRunNodes - TotalNodes(kvMaps)) :
          kvMaps' = Append(kvMaps, m)
    /\ filenames' = Append(filenames, <<102>> \o Itoa(Len(filenames) + 1))
    /\ UNCHANGED <<dups, dErr, dpc, syncVars, chunkVars, flatVars, export, dryRun, rpc, out, rerunVars>>

\* a file cannot be read or parsed: run returns the error
LoadFails ==
    /\ rpc = "load"
    /\ Len(kvMaps) < MaxRunFiles
    /\ runErr' = <<[what |-> "failed to load YAML files", n |-> 0]>>
    /\ rpc' = "done"
    /\ UNCHANGED <<pairs, pc, chunks, i, summary, inflight, wire, replies, stdout,
                   chunkVars, dupVars, flatVars, export, dryRun, out, rerunVars>>

\* all files are loaded (there is at least one); run calls checkDuplicates
CheckDuplicates ==
    /\ rpc = "load"
    /\ Len(kvMaps) >= 1
    /\ \E r \in detectDuplicates(kvMaps, filenames) :
        /\ dups' = r.duplicates
        /\ dErr' = r.err
        /\ runErr' = checkDuplicates(r)
        /\ rpc' = IF checkDuplicates(r) # Nil THEN "done" ELSE "collect"
    /\ dpc' = "ret"
    /\ UNCHANGED <<pairs, pc, chunks, i, summary, inflight, wire, replies, stdout,
                   kvMaps, filenames, chunkVars, flatVars, export, dryRun, out, rerunVars>>

CollectAllKVPairs ==
    /\ rpc = "collect"
    /\ pairs' \in collectAllKVPairs(kvMaps)
    /\ rpc' = "mode"
    /\ UNCHANGED <<pc, chunks, i, summary, inflight, wire, replies, stdout, runErr,
                   chunkVars, dupVars, flatVars, export, dryRun, out, rerunVars>>

\* if export { return exportToJSON(allPairs) }
Export ==
    /\ rpc = "mode"
    /\ runMode(export, dryRun) = "export"
    /\ out' = <<[mode |-> "export", kv |-> exportToJSON(pairs)]>>
    /\ rpc' = "done"
    /\ UNCHANGED <<syncVars, chunkVars, dupVars, flatVars, export, dryRun, rerunVars>>

\* if dryRun { print the pairs; return nil }
DryRun ==
    /\ rpc = "mode"
    /\ runMode(export, dryRun) = "dryrun"
    /\ out' = <<[mode |-> "dryrun", kv |-> pairs]>>
    /\ rpc' = "done"
    /\ UNCHANGED <<syncVars, chunkVars, dupVars, flatVars, export, dryRun, rerunVars>>

\* return syncToConsul(allPairs, ...)
EnterSync ==
    /\ rpc = "mode"
    /\ runMode(export, dryRun) = "sync"
    /\ rpc' = "sync"
    /\ pc' = "start"
    /\ UNCHANGED <<pairs, chunks, i, summary, inflight, wire, replies, stdout, runErr,
                   chunkVars, dupVars, flatVars, export, dryRun, out, rerunVars>>

InitRun ==
    /\ export \in BOOLEAN
    /\ dryRun \in BOOLEAN
    /\ rpc = "load"
    /\ out = <<>>
    /\ kvMaps = <<>>
    /\ filenames = <<>>
    /\ dups = <<>>
    /\ dErr = Nil
    /\ dpc = "call"
    /\ pairs = <<>>
    /\ pc = "off"
    /\ SyncIdle
    /\ ChunkIdle
    /\ FlatIdle
    /\ RerunIdle

NextRun ==
    \/ LoadFile
    \/ LoadFails
    \/ CheckDuplicates
    \/ CollectAllKVPairs
    \/ Export
    \/ DryRun
    \/ EnterSync
    \/ SyncStart
    \/ Submit
    \/ RecordOutcome
    \/ SyncReturn

SpecRun == InitRun /\ [][NextRun]_vars

\* every operation the store has received so far, in arrival order
SentOps == Concat([j \in 1..Len(wire) |-> wire[j].ops])

\* nothing was planned, sent to the store or written out
StoreUntouched ==
    /\ pc = "off"
    /\ chunks = <<>>
    /\ wire = <<>>
    /\ inflight = {}
    /\ replies = <<>>

\* C12: once detectDuplicates has returned the arity error or at least one
\* record, the run is over with a failure, and no pair list was built from the
\* conflicting files, nothing was exported or shown, and no transaction was
\* planned or submitted; as the run is over, none is submitted later.
C12_ConflictAbortsBeforeStore ==
    (dpc = "ret" /\ (dErr # Nil \/ Len(dups) > 0)) =>
        /\ rpc = "done"
        /\ runErr # Nil
        /\ runErr[1].what = (IF dErr # Nil THEN "failed to detect duplicates"
                             ELSE "duplicate keys detected")
        /\ pairs = <<>>
        /\ out = <<>>
        /\ StoreUntouched

\* a plain sync run over two files that both give "a" ended on the duplicate
C12_Witness ==
    /\ dpc = "ret"
    /\ ~export
    /\ ~dryRun
    /\ Len(kvMaps) = 2
    /\ Len(dups) = 1
    /\ dups[1].Key = <<97>>
    /\ rpc = "done"
    /\ runErr = <<[what |-> "duplicate keys detected", n |-> 0]>>

\* the number of scalar leaves of the first n files
RECURSIVE LeavesUpTo(_)
LeavesUpTo(n) ==
    IF n = 0 THEN 0 ELSE LeavesUpTo(n - 1) + Cardinality(LeafKeySeqs(kvMaps[n]))

\* no two elements of the sequence s have the same Key
DistinctKeys(s) == \A j \in 1..Len(s), k \in 1..Len(s) : j # k => s[j].Key # s[k].Key

\* C17: after detectDuplicates has returned no error and no record, the list
\* collectAllKVPairs hands on has pairwise distinct paths and one entry per
\* leaf of the files; the planned batches hold one set operation per entry,
\* and no two operations planned, or received by the store, have the same key.
C17_CheckedPairsAreDistinct ==
    (dpc = "ret" /\ dErr = Nil /\ dups = <<>>) =>
        /\ rpc \in {"mode", "sync", "done"} =>
              /\ DistinctKeys(pairs)
              /\ Len(pairs) = LeavesUpTo(Len(kvMaps))
        /\ pc \in {"loop", "await", "done"} =>
              /\ Len(Concat(chunks)) = LeavesUpTo(Len(kvMaps))
              /\ DistinctKeys(Concat(chunks))
              /\ \A j \in 1..Len(Concat(chunks)) : Concat(chunks)[j].Verb = Str_set
        /\ DistinctKeys(SentOps)
        /\ pc = "done" => Len(SentOps) = LeavesUpTo(Len(kvMaps))

\* two files with three leaves between them, one of them at the path a/b,
\* passed the check and reached the store as three operations
C17_Witness ==
    /\ dpc = "ret"
    /\ dups = <<>>
    /\ Len(kvMaps) = 2
    /\ pc = "done"
    /\ Len(pairs) = 3
    /\ Len(SentOps) = 3
    /\ \E j \in 1..3 : pairs[j].Key = <<97, 47, 98>>

\* C18: with -export or -dry-run set, the run never enters syncToConsul and
\* nothing is planned or sent to the store; a run that got past the duplicate
\* check ends by writing the export when -export is set, whether or not
\* -dry-run is, and the dry-run listing when only -dry-run is; only a run
\* with neither flag enters syncToConsul.
C18_ExportAndDryRunNeverSubmit ==
    /\ (export \/ dryRun) => (rpc # "sync" /\ StoreUntouched)
    /\ rpc = "sync" => (~export /\ ~dryRun)
    /\ out # <<>> =>
          /\ rpc = "done"
          /\ runErr = Nil
          /\ out[1].mode = (IF export THEN "export" ELSE "dryrun")
          /\ out[1].kv = (IF export THEN exportToJSON(pairs) ELSE pairs)
    /\ (rpc = "done" /\ dpc = "ret" /\ runErr = Nil) => out # <<>>
    /\ (rpc = "done" /\ ~export /\ ~dryRun) => runErr # Nil

\* a run with both flags set and a file that passed the check wrote the export
C18_Witness ==
    /\ export
    /\ dryRun
    /\ rpc = "done"
    /\ out # <<>>
    /\ out[1].mode = "export"
    /\ Len(out[1].kv) >= 1

\* the value under the keys ks of the mapping m
RECURSIVE ValueAt(_, _)
ValueAt(m, ks) == IF Len(ks) = 1 THEN m[ks[1]] ELSE ValueAt(m[ks[1]].v, Tail(ks))

\* the leaves of m whose value is null, as key sequences
NilLeafSeqs(m) == {ks \in LeafKeySeqs(m) : ValueAt(m, ks).t = "nil"}

\* base64 of "<nil>": "PG5pbD4="
B64_nil == <<80, 71, 53, 112, 98, 68, 52, 61>>

\* the path p occurs as a leaf other than the leaf ks of file n
OtherLeafAt(n, ks, p) ==
    \E f \in 1..Len(kvMaps) :
        \E ls \in LeafKeySeqs(kvMaps[f]) :
            /\ <<f, ls>> # <<n, ks>>
            /\ JoinedPathNoLeadingEmpty(<<>>, ls) = p

\* C15: for every key present with a null value, at any depth of any file:
\* when another leaf has the same path, detectDuplicates reports the path and
\* lists this file with the value "<nil>"; when the check found no duplicate,
\* the collected pairs hold an entry with its path and the value "<nil>", the
\* export holds it, and the planned and submitted operations hold a set of
\* the path to base64("<nil>").
C15_NullValueIsKept ==
    \A n \in 1..Len(kvMaps) :
        \A ks \in NilLeafSeqs(kvMaps[n]) :
            LET p == JoinedPathNoLeadingEmpty(<<>>, ks)
                op == [Verb |-> Str_set, Key |-> p, Value |-> B64_nil]
            IN  /\ (dpc = "ret" /\ dErr = Nil /\ OtherLeafAt(n, ks, p)) =>
                      \E r \in 1..Len(dups) :
                          /\ dups[r].Key = p
                          /\ \E f \in 1..Len(dups[r].Files) :
                                dups[r].Files[f] = [Filename |-> filenames[n], Value |-> Str_nil]
                /\ (dpc = "ret" /\ dErr = Nil /\ dups = <<>>
                        /\ rpc \in {"mode", "sync", "done"}) =>
                      \E j \in 1..Len(pairs) : pairs[j] = [Key |-> p, Value |-> Str_nil]
                /\ (out # <<>> /\ export) =>
                      \E j \in 1..Len(out[1].kv) : out[1].kv[j] = [key |-> p, value |-> B64_nil]
                /\ pc \in {"loop", "await", "done"} =>
                      \E j \in 1..Len(Concat(chunks)) : Concat(chunks)[j] = op
                /\ (pc = "done" \/ pc = "await") =>
                      \E j \in 1..Len(SentOps) : SentOps[j] = op

\* the file {a: {b: null}} was synced: the store received set a/b = "PG5pbD4="
C15_Witness ==
    /\ pc = "done"
    /\ Len(kvMaps) >= 1
    /\ NilLeafSeqs(kvMaps[1]) = {<<<<97>>, <<98>>>>}
    /\ \E j \in 1..Len(SentOps) :
          SentOps[j] = [Verb |-> Str_set, Key |-> <<97, 47, 98>>, Value |-> B64_nil]

----------------------------------------------------------------------------
(* syncToConsul invoked a second time on the same pairs.                   *)

\* longest allPairs handed to syncToConsul twice (more than one batch)
MaxRerunPairs == 66

\* a second invocation starts: a new ConsulClient, and syncKVPairs' ops,
\* chunks and summary are locals built anew from the same pairs; what the
\* first invocation sent and got is kept aside for comparison
Rerun ==
    /\ pc = "done"
    /\ runNo = 1
    /\ firstRun' = <<[wire |-> wire, replies |-> replies, summary |-> summary,
                      stdout |-> stdout, runErr |-> runErr]>>
    /\ runNo' = 2
    /\ chunks' = <<>>
    /\ i' = 0
    /\ summary' = Nil
    /\ inflight' = {}
    /\ wire' = <<>>
    /\ replies' = <<>>
    /\ stdout' = ""
    /\ runErr' = Nil
    /\ pc' = "start"
    /\ UNCHANGED <<pairs, chunkVars, dupVars, flatVars, runVars>>

InitRerun ==
    /\ pairs \in {TestPairs(n) : n \in 0..MaxRerunPairs}
    /\ pc = "start"
    /\ SyncIdle
    /\ ChunkIdle
    /\ DupIdle
    /\ FlatIdle
    /\ RunIdle
    /\ RerunIdle

NextRerun ==
    \/ SyncStart
    \/ Submit
    \/ RecordOutcome
    \/ SyncReturn
    \/ Rerun

SpecRerun == InitRerun /\ [][NextRerun]_vars

\* the contents of the remote store, a function from keys to values, after a
\* transaction of set operations has been applied to the contents S: every
\* key of ops holds the value of the last operation on it
ApplyOps(S, ops) ==
    LET ks == {ops[j].Key : j \in 1..Len(ops)}
        last(k) == CHOOSE j \in 1..Len(ops) :
                      ops[j].Key = k /\ \A q \in (j + 1)..Len(ops) : ops[q].Key # k
    IN  [k \in DOMAIN S \cup ks |-> IF k \in ks THEN ops[last(k)].Value ELSE S[k]]

\* the contents after the transactions txs have been applied in order
RECURSIVE ApplyAll(_, _)
ApplyAll(S, txs) ==
    IF txs = <<>> THEN S ELSE ApplyAll(ApplyOps(S, Head(txs).ops), Tail(txs))

\* what the store may have held before the first run: nothing, or key0 = "old"
InitialStores == {<<>>, [k \in {Str_key \o Itoa(0)} |-> <<111, 108, 100>>]}

\* every batch of the first run was answered with a commit
FirstRunCommitted ==
    /\ firstRun # <<>>
    /\ \A j \in 1..Len(firstRun[1].replies) : IsCommit(firstRun[1].replies[j])

=============================================================================
